---- MODULE Spec2Model ----
(***************************************************************************)
(* Tank-drain model of mte352_model: the friction/velocity fixed-point     *)
(* solvers (proper_fluid_sim.py, reynolds_numbers_w_iterative_darcy.py),   *)
(* the explicit-Euler drain loop (proper_fluid_sim.py) and the argmin      *)
(* sweep (discharge_model.py).                                             *)
(*                                                                         *)
(* The sources compute in binary floating point.  The model computes the   *)
(* same expressions, in the same order, in fixed point on 32-bit integers, *)
(* every division rounding down.  Units:                                   *)
(*    height h            1e-4 m        (0.10 m  = 1000)                   *)
(*    tube length L       1e-3 m        (0.3 m   = 300)                    *)
(*    tube diameter       1e-5 m        (7.94 mm = 794)                    *)
(*    roughness           1e-7 m        (1.5e-6 m = 15)                    *)
(*    velocity v          1e-3 m/s                                         *)
(*    Reynolds number     1e-2          (2300 = 230000)                    *)
(*    friction factor f   1e-5          (0.02 = 2000)                      *)
(*    loss coefficients   1e-3          (0.45 = 450)                       *)
(*    time                ticks of 0.01 s                                  *)
(* A float operation that absorbs a tiny operand (h - dh = h) corresponds  *)
(* to a grid operation whose result rounds to the same grid point.         *)
(***************************************************************************)
EXTENDS Integers, Sequences, FiniteSets, TLC

VARIABLES
    globals,   \* module-level names of proper_fluid_sim.py read at call time
    run,       \* run[r]: the frame of one simulate_drain_time(L) call
    cvf,       \* the frame of one calculate_velocity_and_friction call
    idr,       \* the frame of one iterative_darcy_reynolds call
    sweep      \* discharge_model.py's module-level sweep: lengths, times, optimum

vars == <<globals, run, cvf, idr, sweep>>

----------------------------------------------------------------------------
(* Bounds of the model *)

\* One model time step stands for Stretch source time steps of DT = 0.01 s, so
\* that a drain takes tens of steps rather than tens of thousands.
Stretch == 1000
\* Largest max_iterations / max_iter argument drawn for a solver call.
MaxIter == 8
\* Samples of a run's trajectory the model records (the code has no limit).
MaxSamples == 36

----------------------------------------------------------------------------
(* Constants of proper_fluid_sim.py *)

G == 981
RHO == 1000
MU == 1
D_TUBE == 794
A_TUBE == ((D_TUBE \div 2) * (D_TUBE \div 2) * 355) \div 113
LENGTH_TANK == 320
WIDTH_TANK == 260
A_TANK == LENGTH_TANK * WIDTH_TANK
EPSILON == 15
K_ENTRANCE == 450
K_EXIT == 0
H_INITIAL == 1000
H_FINAL == 200
DT == Stretch

\* f = 0.02, the initial guess
F_SEED == 2000
\* Re < 2300: laminar branch of calculate_velocity_and_friction
RE_LAMINAR == 230000
\* Re < 1e-6 is floored to 1e-6; on the grid the only Reynolds number below
\* 1e-6 is 0, and it is floored to the smallest positive grid value.
RE_FLOOR == 1
\* tol = 1e-6 and max_iterations = 100, the defaults simulate_drain_time uses.
\* 1e-6 is below the friction grid: the default is the grid's smallest tolerance.
TOL_DEFAULT == 1
MAX_ITERATIONS_DEFAULT == 100

----------------------------------------------------------------------------
(* Arithmetic *)

Abs(x) == IF x < 0 THEN -x ELSE x

\* floor(a * b / c) without forming a * b
MulDiv(a, b, c) == (a \div c) * b + ((a % c) * b) \div c

\* The searches below are recursive functions, so that each argument is a value
\* when the body is evaluated.

\* the largest r in lo .. hi - 1 with r * r <= n, by bisection
SqrtSearch[n \in Nat, lo \in Nat, hi \in Nat] ==
    IF hi - lo <= 1 THEN lo
    ELSE LET mid == (lo + hi) \div 2
         IN  IF mid * mid <= n THEN SqrtSearch[n, mid, hi]
                               ELSE SqrtSearch[n, lo, mid]

\* np.sqrt on a non-negative argument, rounded down
ISqrt(n) == SqrtSearch[n, 0, 46341]

Pow10[c \in Nat] == IF c = 0 THEN 1 ELSE 10 * Pow10[c - 1]

Digits[n \in Nat] == IF n < 10 THEN 0 ELSE 1 + Digits[n \div 10]

\* the binary digits of log10(m / 1000) for 1000 <= m < 10000, by squaring
LogBits[m \in Nat, k \in Nat, bits \in Nat] ==
    IF k = 0 THEN bits
    ELSE LET sq == (m * m) \div 1000
         IN  IF sq >= 10000 THEN LogBits[sq \div 10, k - 1, 2 * bits + 1]
                            ELSE LogBits[sq, k - 1, 2 * bits]

\* np.log10 of an integer n >= 1, in units of 1e-3
Log10k(n) ==
    LET c == Digits[n]
        m == (n * 1000) \div Pow10[c]
    IN  c * 1000 + (LogBits[m, 10, 0] * 1000) \div 1024

----------------------------------------------------------------------------
(* proper_fluid_sim.py: the solver *)

\* sqrt(2 * G * h / (1 + (f * L / D_TUBE) + K_ENTRANCE + K_EXIT))
Velocity(h, L, f) ==
    ISqrt((2 * G * h * 1000) \div (1000 + MulDiv(f, L, D_TUBE) + K_ENTRANCE + K_EXIT))

\* Re = RHO * v * D_TUBE / MU
Reynolds(v) == (RHO * v * D_TUBE) \div (MU * 1000)

\* (-2.0 * log10(EPSILON / (3.7 * d) + 2.51 / (Re * sqrt(f)))) ** -2
colebrook(Re, d, f) ==
    LET sf == ISqrt(f * 10)
        x  == (EPSILON * 1000000) \div (37 * d) + 251000000 \div ((Re * sf) \div 10000)
        y  == 2 * (7000 - Log10k(x))
    IN  1000000000 \div ((y * y) \div 100)

\* the friction factor of one iteration: the Re floor and the regime branch
NewFriction(v, f) ==
    LET Re0 == Reynolds(v)
        Re  == IF Re0 < RE_FLOOR THEN RE_FLOOR ELSE Re0
    IN  IF Re < RE_LAMINAR THEN 640000000 \div Re
                           ELSE colebrook(Re, D_TUBE, f)

\* the convergence check
Converged(new_f, f, tol) == Abs(new_f - f) < tol

\* The locals (v, f) before the loop, and whether the loop has left by break
CvfEntry(h, L) == [v |-> Velocity(h, L, F_SEED), f |-> F_SEED, converged |-> FALSE]

\* CvfPass with the two updates in the wrong order: v from the old f, then f
CvfPassStaleVelocity(h, L, tol, s) ==
    IF s.converged THEN s
    ELSE LET new_f == NewFriction(s.v, s.f)
         IN  IF Converged(new_f, s.f, tol)
             THEN [s EXCEPT !.converged = TRUE]
             ELSE [v |-> Velocity(h, L, s.f), f |-> new_f, converged |-> FALSE]

\* One pass of "for _ in range(max_iterations)": break with (v, f) kept and new_f
\* dropped, or f and v updated together.  After the break no pass runs.
CvfPass(h, L, tol, s) ==
    IF s.converged THEN s
    ELSE LET new_f == NewFriction(s.v, s.f)
         IN  IF Converged(new_f, s.f, tol)
             THEN [s EXCEPT !.converged = TRUE]
             ELSE [v |-> Velocity(h, L, new_f), f |-> new_f, converged |-> FALSE]

\* n passes of the loop from locals s0.  The passes are split in halves only to
\* keep the evaluation shallow (n passes are the first n \div 2, then the rest),
\* and s is bound to the value of s0 so that s0 is evaluated once.
RECURSIVE CvfLoop(_, _, _, _, _)
CvfLoop(h, L, tol, n, s0) ==
    CHOOSE out \in { IF n = 0 \/ s.converged THEN s
                     ELSE IF n = 1 THEN CvfPass(h, L, tol, s)
                     ELSE CvfLoop(h, L, tol, n - (n \div 2),
                                  CvfLoop(h, L, tol, n \div 2, s)) : s \in {s0} } : TRUE

\* calculate_velocity_and_friction(h, L, tol, max_iterations): the locals at
\* "return v, f"
calculate_velocity_and_friction(h, L, tol, max_iterations) ==
    CvfLoop(h, L, tol, max_iterations, CvfEntry(h, L))

----------------------------------------------------------------------------
(* proper_fluid_sim.py: one calculate_velocity_and_friction call, pass by pass *)

\* arguments the solver is called with: heights from an empty tank to H_INITIAL,
\* tube lengths from none to 2 m, two tolerances, every iteration budget
SolverHeights == {0, 10, 200, 1000}
SolverLengths == {0, 300, 600, 2000}
Tolerances == {1, 50}

\* def calculate_velocity_and_friction(h, L, tol, max_iterations): f, v set
CvfCall(h, L, tol, max_iterations) ==
    /\ cvf.pc = "idle"
    /\ cvf' = [pc |-> "loop", h |-> h, L |-> L, tol |-> tol,
               max_iterations |-> max_iterations, i |-> 0, s |-> CvfEntry(h, L)]
    /\ UNCHANGED <<globals, run, idr, sweep>>

\* one pass of the for loop
CvfIter ==
    /\ cvf.pc = "loop"
    /\ cvf.i < cvf.max_iterations
    /\ ~cvf.s.converged
    /\ cvf' = [cvf EXCEPT !.i = @ + 1,
                          !.s = CvfPass(cvf.h, cvf.L, cvf.tol, cvf.s)]
    /\ UNCHANGED <<globals, run, idr, sweep>>

\* "return v, f", reached by break and by the end of range(max_iterations) alike
CvfReturn ==
    /\ cvf.pc = "loop"
    /\ cvf.s.converged \/ cvf.i = cvf.max_iterations
    /\ cvf' = [cvf EXCEPT !.pc = "returned"]
    /\ UNCHANGED <<globals, run, idr, sweep>>

NextSolver ==
    \/ \E h \in SolverHeights, L \in SolverLengths, tol \in Tolerances,
          max_iterations \in 0..MaxIter : CvfCall(h, L, tol, max_iterations)
    \/ CvfIter
    \/ CvfReturn

----------------------------------------------------------------------------
(* reynolds_numbers_w_iterative_darcy.py *)

g == 981
rho == 1000
mu == 1
D == 794
epsilon == 15000
K == 1500
\* Re < 2000: laminar branch of iterative_darcy_reynolds
IDR_LAMINAR == 200000
\* f = 0.02, the initial guess
IDR_SEED == 2000

\* the script's heights (0.01 .. 0.1 m) and lengths
heights == {100, 200, 300, 500, 800, 1000}
lengths == {200, 300, 400, 600}

\* v = np.sqrt(2 * g * h / (1 + f * L / D + K))
IdrVelocity(h, L, f) == ISqrt((2 * g * h * 1000) \div (1000 + MulDiv(f, L, D) + K))

\* Re = (rho * v * D) / mu
IdrReynolds(v) == (rho * v * D) \div (mu * 1000)

\* f_new: 64 / Re, or (-1.8 * log10((epsilon / D) / 3.7 + 6.9 / Re)) ** -2
IdrNewFriction(Re) ==
    IF Re < IDR_LAMINAR THEN 640000000 \div Re
    ELSE LET x == (epsilon * 100000) \div (D * 37) + 690000000 \div Re
             y == (18 * (6000 - Log10k(x))) \div 10
         IN  1000000000 \div ((y * y) \div 100)

\* def iterative_darcy_reynolds(h, L, epsilon, D, K, max_iter, tol): f = 0.02
IdrCall(h, L, max_iter, tol) ==
    /\ idr.pc = "idle"
    /\ idr' = [pc |-> "loop", h |-> h, L |-> L, max_iter |-> max_iter, tol |-> tol,
               i |-> 0, f |-> IDR_SEED, Re |-> 0, f_new |-> 0, checks |-> <<>>]
    /\ UNCHANGED <<globals, run, cvf, sweep>>

\* One pass of "for i in range(max_iter)": return Re, f_new when the check holds,
\* else f = f_new.  checks records the outcome of every check made.
IdrIter ==
    /\ idr.pc = "loop"
    /\ idr.i < idr.max_iter
    /\ LET v     == IdrVelocity(idr.h, idr.L, idr.f)
           Re    == IdrReynolds(v)
           f_new == IdrNewFriction(Re)
       IN  IF Converged(f_new, idr.f, idr.tol)
           THEN idr' = [idr EXCEPT !.pc = "returned", !.Re = Re, !.f_new = f_new,
                                   !.checks = Append(@, TRUE)]
           ELSE idr' = [idr EXCEPT !.i = @ + 1, !.f = f_new, !.Re = Re,
                                   !.f_new = f_new, !.checks = Append(@, FALSE)]
    /\ UNCHANGED <<globals, run, cvf, sweep>>

\* IdrRaise without the raise: the loop falls through to a return of Re, f
IdrFallThrough ==
    /\ idr.pc = "loop"
    /\ idr.i = idr.max_iter
    /\ idr' = [idr EXCEPT !.pc = "returned", !.f_new = idr.f]
    /\ UNCHANGED <<globals, run, cvf, sweep>>

\* range(max_iter) is used up: raise RuntimeError
IdrRaise ==
    /\ idr.pc = "loop"
    /\ idr.i = idr.max_iter
    /\ idr' = [idr EXCEPT !.pc = "raised"]
    /\ UNCHANGED <<globals, run, cvf, sweep>>

NextDarcy ==
    \/ \E h \in heights, L \in lengths, max_iter \in 0..MaxIter, tol \in Tolerances :
          IdrCall(h, L, max_iter, tol)
    \/ IdrIter
    \/ IdrRaise

----------------------------------------------------------------------------
(* proper_fluid_sim.py: simulate_drain_time *)

Runs == {"a", "b"}

\* tube lengths a run is called with: no tube, lengths of the 0.2 .. 0.6 m sweep,
\* and a tube so long that the outflow per step is below the height resolution
Lengths == {0, 200, 300, 400, 600, 200000}

IdleRun == [pc |-> "idle", L |-> 0, h |-> 0, total_time |-> 0,
            heights |-> <<>>, times |-> <<>>, steps |-> 0]

\* DeltaH with the sign reversed: the tube feeds the tank
DeltaHBackflow(v, dt) ==
    LET ratio == (A_TUBE * 1000) \div A_TANK
    IN  0 - (((ratio * v) \div 1000) * dt) \div 100000

\* dh = (A_TUBE / A_TANK) * v * DT
DeltaH(v, dt) ==
    LET ratio == (A_TUBE * 1000) \div A_TANK
    IN  (((ratio * v) \div 1000) * dt) \div 100000

\* SimBody with the last step clamped to land on H_FINAL
SimBodyClamped(s, gl) ==
    LET vf == calculate_velocity_and_friction(s.h, s.L, TOL_DEFAULT, MAX_ITERATIONS_DEFAULT)
        dh == DeltaH(vf.v, gl.DT)
        h2 == IF s.h - dh < gl.H_FINAL THEN gl.H_FINAL ELSE s.h - dh
        t2 == s.total_time + gl.DT
    IN  [s EXCEPT !.h = h2, !.total_time = t2,
                  !.heights = Append(@, h2), !.times = Append(@, t2)]

\* SimBody recording the sample before the height and time updates
SimBodyRecordFirst(s, gl) ==
    LET vf == calculate_velocity_and_friction(s.h, s.L, TOL_DEFAULT, MAX_ITERATIONS_DEFAULT)
        dh == DeltaH(vf.v, gl.DT)
        h2 == s.h - dh
        t2 == s.total_time + gl.DT
    IN  [s EXCEPT !.h = h2, !.total_time = t2,
                  !.heights = Append(@, s.h), !.times = Append(@, s.total_time)]

\* The body of "while h > H_FINAL" on the locals s of a call, with the module
\* globals gl: solve, step the height and the time, then record both.
SimBody(s, gl) ==
    LET vf == calculate_velocity_and_friction(s.h, s.L, TOL_DEFAULT, MAX_ITERATIONS_DEFAULT)
        dh == DeltaH(vf.v, gl.DT)
        h2 == s.h - dh
        t2 == s.total_time + gl.DT
    IN  [s EXCEPT !.h = h2, !.total_time = t2,
                  !.heights = Append(@, h2), !.times = Append(@, t2)]

\* def simulate_drain_time(L): the locals before the loop
SimCall(r, L) ==
    /\ run[r].pc = "idle"
    /\ run' = [run EXCEPT ![r] = [pc |-> "loop", L |-> L, h |-> globals.H_INITIAL,
                                  total_time |-> 0, heights |-> <<>>, times |-> <<>>,
                                  steps |-> 0]]
    /\ UNCHANGED <<globals, cvf, idr, sweep>>

\* SimLoop with heights and times as module-level lists, shared by every call
SimLoopSharedLists(r) ==
    /\ run[r].pc = "loop"
    /\ run[r].h > globals.H_FINAL
    /\ run[r].steps < MaxSamples
    /\ LET s2 == SimBody(run[r], globals)
       IN  run' = [run EXCEPT ![r].h = s2.h, ![r].total_time = s2.total_time,
                              ![r].steps = @ + 1,
                              !["a"].heights = Append(@, s2.h),
                              !["a"].times = Append(@, s2.total_time)]
    /\ UNCHANGED <<globals, cvf, idr, sweep>>

\* One pass of the while loop.  steps counts the passes made.  The clock and the
\* trajectory are recorded for the first MaxSamples passes; a later pass is
\* followed by its height alone.
SimLoop(r) ==
    /\ run[r].pc = "loop"
    /\ run[r].h > globals.H_FINAL
    /\ run' = [run EXCEPT ![r] =
                  IF run[r].steps < MaxSamples
                  THEN [SimBody(run[r], globals) EXCEPT !.steps = @ + 1]
                  ELSE [run[r] EXCEPT !.h = SimBody(run[r], globals).h]]
    /\ UNCHANGED <<globals, cvf, idr, sweep>>

\* the loop condition fails: return total_time, times, heights
SimReturn(r) ==
    /\ run[r].pc = "loop"
    /\ ~(run[r].h > globals.H_FINAL)
    /\ run' = [run EXCEPT ![r].pc = "done"]
    /\ UNCHANGED <<globals, cvf, idr, sweep>>

\* The loop of a call that runs alone, from locals s to the locals at the return
RECURSIVE SimAlone(_, _)
SimAlone(s0, gl) ==
    CHOOSE out \in { IF s.h > gl.H_FINAL THEN SimAlone(SimBody(s, gl), gl) ELSE s
                     : s \in {s0} } : TRUE

\* simulate_drain_time(L): what a call returns when nothing else runs
simulate_drain_time(L) ==
    LET gl == [H_INITIAL |-> H_INITIAL, H_FINAL |-> H_FINAL, DT |-> DT]
        s  == SimAlone([pc |-> "loop", L |-> L, h |-> gl.H_INITIAL, total_time |-> 0,
                        heights |-> <<>>, times |-> <<>>, steps |-> 0], gl)
    IN  <<s.total_time, s.times, s.heights>>

\* lengths of the interleaved runs
RunLengths == {0, 300}

\* results = [simulate_drain_time(L) for L in tube_lengths]: each call run alone
results == [L \in RunLengths |-> simulate_drain_time(L)]

\* runs of several lengths, interleaved pass by pass
NextRuns ==
    \E r \in Runs :
        \/ \E L \in RunLengths : SimCall(r, L)
        \/ SimLoop(r)
        \/ SimReturn(r)

----------------------------------------------------------------------------
(* discharge_model.py: the sweep *)

\* candidate lists: np.arange(0.2, 0.7, 0.1), and the four measured lengths
CandidateLists == {<<200, 300, 400, 500, 600>>, <<200, 300, 400, 600>>}
\* values a drain_time(L) call may return (s)
DrainTimes == {266, 288, 319, 334}

\* argmin keeping the last index of the least value
argminLast(ts) ==
    CHOOSE i \in 1..Len(ts) :
        /\ \A j \in 1..Len(ts) : ts[i] <= ts[j]
        /\ \A j \in (i + 1)..Len(ts) : ts[j] > ts[i]

\* np.argmin over ts[1..k]: the first index of the least value
RECURSIVE ArgMinUpTo(_, _)
ArgMinUpTo(ts, k) ==
    IF k = 1 THEN 1
    ELSE LET best == ArgMinUpTo(ts, k - 1)
         IN  IF ts[k] < ts[best] THEN k ELSE best

argmin(ts) == ArgMinUpTo(ts, Len(ts))

\* tube_lengths = ...
SweepBegin(ls) ==
    /\ sweep.pc = "idle"
    /\ sweep' = [pc |-> "timing", tube_lengths |-> ls, times |-> <<>>, optimal_length |-> 0]
    /\ UNCHANGED <<globals, run, cvf, idr>>

\* times = [drain_time(L) for L in tube_lengths], one element
SweepTime(t) ==
    /\ sweep.pc = "timing"
    /\ Len(sweep.times) < Len(sweep.tube_lengths)
    /\ sweep' = [sweep EXCEPT !.times = Append(@, t)]
    /\ UNCHANGED <<globals, run, cvf, idr>>

\* optimal_length = tube_lengths[np.argmin(times)]
SweepSelect ==
    /\ sweep.pc = "timing"
    /\ Len(sweep.times) = Len(sweep.tube_lengths)
    /\ sweep' = [sweep EXCEPT !.pc = "done",
                              !.optimal_length = sweep.tube_lengths[argmin(sweep.times)]]
    /\ UNCHANGED <<globals, run, cvf, idr>>

NextSweep ==
    \/ \E ls \in CandidateLists : SweepBegin(ls)
    \/ \E t \in DrainTimes : SweepTime(t)
    \/ SweepSelect

----------------------------------------------------------------------------
(* Specifications *)

Init ==
    /\ globals = [H_INITIAL |-> H_INITIAL, H_FINAL |-> H_FINAL, DT |-> DT]
    /\ run = [r \in Runs |-> IdleRun]
    /\ cvf = [pc |-> "idle"]
    /\ idr = [pc |-> "idle"]
    /\ sweep = [pc |-> "idle"]

\* one simulate_drain_time call
Next ==
    \/ \E L \in Lengths : SimCall("a", L)
    \/ SimLoop("a")
    \/ SimReturn("a")

Spec == Init /\ [][Next]_vars

\* The interpreter keeps running a call that can take a step.  A pass that
\* changes nothing is a stuttering step: a run whose passes leave h where it was
\* stays in the loop for ever.
FairSpec == Init /\ [][Next]_vars /\ WF_vars(Next)

SpecSolver == Init /\ [][NextSolver]_vars
SpecDarcy == Init /\ [][NextDarcy]_vars
SpecRuns == Init /\ [][NextRuns]_vars
SpecSweep == Init /\ [][NextSweep]_vars

----------------------------------------------------------------------------
(* Claims *)

\* C1: a calculate_velocity_and_friction call in which no pass satisfied
\* |new_f - f| < tol (max_iterations = 0 included) ends in a reported failure:
\* it never returns a (v, f) pair.  Stated: every return is a converged one.
C1_NonConvergenceIsReported == cvf.pc = "returned" => cvf.s.converged

\* C2: iterative_darcy_reynolds returns (Re, f_new) only from a pass i < max_iter
\* whose check |f_new - f| < tol held, the first such pass; otherwise it raises,
\* after max_iter failed checks.  With max_iter = 0 it never returns.
C2_ReturnsOnlyOnConvergence ==
    /\ idr.pc = "returned" =>
          /\ idr.i < idr.max_iter
          /\ Len(idr.checks) = idr.i + 1
          /\ idr.checks[idr.i + 1]
          /\ \A k \in 1..idr.i : ~idr.checks[k]
          /\ Abs(idr.f_new - idr.f) < idr.tol
          /\ idr.f_new = IdrNewFriction(idr.Re)
    /\ idr.pc = "raised" =>
          /\ Len(idr.checks) = idr.max_iter
          /\ \A k \in 1..Len(idr.checks) : ~idr.checks[k]
    /\ idr.pc \in {"loop", "returned", "raised"} /\ idr.max_iter = 0 =>
          idr.pc # "returned"

C2_Witness == idr.pc = "returned" /\ idr.i >= 2

\* C3: the recorded heights of a simulate_drain_time run never increase: the
\* first is at most H_INITIAL and each later one at most the one before it.
C3_HeightsNonIncreasing ==
    \A r \in Runs :
        LET hs == run[r].heights
        IN  /\ Len(hs) >= 1 => hs[1] <= H_INITIAL
            /\ \A k \in 1..(Len(hs) - 1) : hs[k + 1] <= hs[k]

C3_Witness ==
    /\ run["a"].pc = "done"
    /\ Len(run["a"].heights) >= 10
    /\ run["a"].heights[10] < run["a"].heights[1]

\* C4: the drain loop never runs forever: a started run returns, or fails at a
\* hard iteration cap.
C4_DrainLoopTerminates ==
    (run["a"].pc = "loop") ~> (run["a"].pc \in {"done", "failed"})

\* C5: when simulate_drain_time returns (H_INITIAL > H_FINAL), total_time > 0,
\* the trajectory is not empty, its last height is <= H_FINAL and every earlier
\* one is > H_FINAL; the last step is applied in full, not clamped.
C5_ReturnState ==
    \A r \in Runs :
        run[r].pc = "done" /\ H_INITIAL > H_FINAL =>
            LET hs   == run[r].heights
                n    == Len(hs)
                prev == IF n = 1 THEN H_INITIAL ELSE hs[n - 1]
            IN  /\ run[r].total_time > 0
                /\ n > 0
                /\ hs[n] <= H_FINAL
                /\ \A k \in 1..(n - 1) : hs[k] > H_FINAL
                /\ hs[n] = prev - DeltaH(calculate_velocity_and_friction(
                               prev, run[r].L, TOL_DEFAULT, MAX_ITERATIONS_DEFAULT).v, DT)

\* a return whose last step went past H_FINAL
C5_Witness ==
    /\ run["a"].pc = "done"
    /\ run["a"].heights[Len(run["a"].heights)] < H_FINAL

\* C6: the sweep selects the first candidate length whose drain time is minimal;
\* times [319, 334, 266, 288] over lengths [0.2, 0.3, 0.4, 0.6] select 0.4.
C6_SelectsFirstMinimum ==
    sweep.pc = "done" =>
        /\ \E i \in 1..Len(sweep.times) :
              /\ sweep.optimal_length = sweep.tube_lengths[i]
              /\ \A j \in 1..Len(sweep.times) : sweep.times[i] <= sweep.times[j]
              /\ \A j \in 1..(i - 1) : sweep.times[j] > sweep.times[i]
        /\ (sweep.tube_lengths = <<200, 300, 400, 600>>
            /\ sweep.times = <<319, 334, 266, 288>>) => sweep.optimal_length = 400

C6_Witness ==
    /\ sweep.pc = "done"
    /\ sweep.tube_lengths = <<200, 300, 400, 600>>
    /\ sweep.times = <<319, 334, 266, 288>>

\* C7: runs share no mutable state: the module globals never change, a run that
\* has returned holds what a run of its length alone returns, a run under way
\* holds the first samples of it, one per pass of its own, and two runs of one
\* length agree on every sample both have recorded, however they are interleaved.
C7_RunsIndependent ==
    /\ globals = [H_INITIAL |-> H_INITIAL, H_FINAL |-> H_FINAL, DT |-> DT]
    /\ \A r \in Runs :
          run[r].pc = "done" =>
              <<run[r].total_time, run[r].times, run[r].heights>> = results[run[r].L]
    /\ \A r \in Runs :
          run[r].pc = "loop" =>
              /\ run[r].times = SubSeq(results[run[r].L][2], 1, run[r].steps)
              /\ run[r].heights = SubSeq(results[run[r].L][3], 1, run[r].steps)
    /\ \A r, q \in Runs :
          (/\ run[r].pc # "idle" /\ run[q].pc # "idle"
           /\ run[r].L = run[q].L
           /\ Len(run[r].heights) <= Len(run[q].heights)) =>
              /\ run[r].heights = SubSeq(run[q].heights, 1, Len(run[r].heights))
              /\ run[r].times = SubSeq(run[q].times, 1, Len(run[r].times))

\* one run has returned while a run of another length is under way
C7_Witness ==
    /\ run["a"].pc = "done"
    /\ run["b"].pc = "loop"
    /\ run["b"].steps >= 3
    /\ run["a"].L # run["b"].L

\* C8: whenever a solver call returns a flow state whose Reynolds number is below
\* the laminar threshold, the returned friction factor is within tol of 64 / Re,
\* whatever the number of passes made.  (Re is floored as the solver floors it.)
C8_LaminarClosedForm ==
    cvf.pc = "returned" =>
        LET Re0 == Reynolds(cvf.s.v)
            Re  == IF Re0 < RE_FLOOR THEN RE_FLOOR ELSE Re0
        IN  Re < RE_LAMINAR => Abs(cvf.s.f - 640000000 \div Re) < cvf.tol

\* C9: the trajectory starts empty and gets one (time, height) sample per pass,
\* after the updates: times and heights are as long as the passes made, the k-th
\* time is k time steps, (0, H_INITIAL) is never recorded, total_time is the last
\* recorded time, and no recorded sample is changed or removed.
C9_TrajectoryAppendOnly ==
    /\ [](\A r \in Runs :
            LET n == Len(run[r].times)
            IN  /\ Len(run[r].heights) = n
                /\ n = run[r].steps
                /\ \A k \in 1..n : run[r].times[k] = k * DT
                /\ \A k \in 1..n : ~(run[r].times[k] = 0 /\ run[r].heights[k] = H_INITIAL)
                /\ n >= 1 => run[r].total_time = run[r].times[n]
                /\ n >= 1 => run[r].h = run[r].heights[n]
                /\ run[r].pc = "loop" /\ n = 0 =>
                      run[r].total_time = 0 /\ run[r].h = H_INITIAL)
    /\ [][\A r \in Runs :
            run[r].pc # "idle" =>
                /\ Len(run'[r].heights) >= Len(run[r].heights)
                /\ SubSeq(run'[r].heights, 1, Len(run[r].heights)) = run[r].heights
                /\ SubSeq(run'[r].times, 1, Len(run[r].times)) = run[r].times]_vars

C9_Witness ==
    /\ run["a"].pc = "done"
    /\ run["a"].steps >= 10
    /\ run["a"].total_time = run["a"].times[run["a"].steps]

\* C10: on every return path of calculate_velocity_and_friction the velocity is
\* the governing-equation velocity at the returned friction factor, and on
\* convergence the returned f is the one the converging pass started from (its
\* new_f, within tol of f, is dropped).
C10_VelocityMatchesFriction ==
    cvf.pc \in {"loop", "returned"} =>
        /\ cvf.s.v = Velocity(cvf.h, cvf.L, cvf.s.f)
        /\ cvf.s.converged =>
              Abs(NewFriction(cvf.s.v, cvf.s.f) - cvf.s.f) < cvf.tol
        /\ cvf.i = 0 => cvf.s.f = F_SEED

C10_Witness == cvf.pc = "returned" /\ cvf.s.converged /\ cvf.i >= 3
====
